---- MODULE Spec2Model ----
(***************************************************************************)
(* A model of the segmentation and finalization engine of recorder.py:     *)
(* VideoRecorder (start_recording, monitor_video_size,                     *)
(* _record_with_segmentation, merge_video_audio, stop_recording) together  *)
(* with the segmented part of AudioRecorder.                               *)
(*                                                                         *)
(* Threads.  The caller runs start_recording and stop_recording; every     *)
(* successful start creates one thread (the size monitor in video-only     *)
(* mode, the segmentation worker in audio+video mode).  A thread is never  *)
(* killed: join(timeout) only stops waiting for it.                        *)
(*                                                                         *)
(* Time.  now is datetime.datetime.now() in whole seconds.  It advances    *)
(* exactly where the code waits a second or more (time.sleep(2.0),         *)
(* time.sleep(monitor_interval), time.sleep(1.0), a join that times out);  *)
(* the sub-second sleeps of the readiness polls leave it alone.            *)
(*                                                                         *)
(* Files.  fs is the content of Videos/ and Audios/: a function from the   *)
(* paths that exist to their size class, and the temp videos in the order  *)
(* of their modification times, latest first.  Size classes: 0 empty,      *)
(* 1 non-empty and below segment_threshold, Threshold at or above it.      *)
(* The Capture Driver (picamera2 + ffmpeg), the audio device, the merge    *)
(* tool and os.rename are outside the repository: what they do (write      *)
(* late, fail, raise) is chosen nondeterministically.  The reconfiguration *)
(* of the camera pipeline (prepare_video_mode, restore_preview) touches no *)
(* state of the recorder and is left out.                                  *)
(*                                                                         *)
(* History.  chunks, returns, the caller's calls, last, began, worker and  *)
(* closed, and a thread's raised, rollovers and frozen record what has     *)
(* happened                                                                *)
(* (budget is the number of calls the caller will make);                   *)
(* the program does not read them.  So does the src field of a returned    *)
(* segment: the ledger path it was renamed from.                           *)
(***************************************************************************)
EXTENDS Integers, Sequences, FiniteSets, TLC

\* Bounds of the model.
MaxTime == 3
MaxThreads == 2
MaxCalls == 3
MaxChunks == 2
ReadyPolls == 2
MaxPolls == 4
MaxLag == 1      \* the longest one iteration of the poll loop takes beyond its sleep

\* segment_threshold as a size class.
Threshold == 2

\* The category tag the caller passes to stop_recording.
Category == "cat"

NoPath == <<>>
NoTime == -1
NoThread == 0

VARIABLES
    recording,              \* self.recording
    with_audio,             \* self.with_audio
    segments,               \* self.segments, the ledger
    current_video_file,     \* self.current_video_file
    current_segment_start,  \* self.current_segment_start
    stop_monitor,           \* self.stop_monitor
    session_counter,        \* self.session_counter
    chunk_num,              \* self.chunk_num
    monitor_thread,         \* self.monitor_thread (a thread id, NoThread for None)
    segmentation_thread,    \* self.segmentation_thread
    thr,                    \* the threads created so far: pc and locals
    caller,                 \* the caller's position in start_recording / stop_recording
    now,                    \* the clock
    fs,                     \* the files that exist
    cam,                    \* the Capture Driver: targets started and not yet stopped, targets still written
    audio,                  \* AudioRecorder's segment_start_time and captures in flight
    chunks,                 \* history: the captures started by segmentation workers, with their outcomes
    returns,                \* history: what each stop_recording call returned
    gpio                    \* the GPIO poll loop: its locals, the *_pressed flags, and history

vars == <<recording, with_audio, segments, current_video_file, current_segment_start,
          stop_monitor, session_counter, chunk_num, monitor_thread, segmentation_thread,
          thr, caller, now, fs, cam, audio, chunks, returns, gpio>>

recorderVars == <<recording, with_audio, segments, current_video_file, current_segment_start,
                  stop_monitor, session_counter, chunk_num, monitor_thread, segmentation_thread>>

Threads == 1..MaxThreads

(***************************************************************************)
(* Paths and files                                                         *)
(***************************************************************************)
TempAudio == <<"temp_seg_audio">>

\* "temp" in f.lower() and f.endswith(".mp4"), over os.listdir("Videos")
IsTempVideo(p) == Len(p) = 2 /\ p[1] = "temp"

Exists(p) == p \in DOMAIN fs.size

NonEmpty(p) == Exists(p) /\ fs.size[p] > 0

AtThreshold(p) == Exists(p) /\ fs.size[p] >= Threshold

Without(s, ps) == SelectSeq(s, LAMBDA q : q \notin ps)

\* A write to p makes it the most recently modified temp video.
Touch(s, p) == IF IsTempVideo(p) THEN <<p>> \o Without(s, {p}) ELSE s

FsPut(f, p, sz) ==
    [size |-> [q \in (DOMAIN f.size) \cup {p} |-> IF q = p THEN sz ELSE f.size[q]],
     recent |-> Touch(f.recent, p)]

FsRemove(f, ps) ==
    [size |-> [q \in (DOMAIN f.size) \ ps |-> f.size[q]],
     recent |-> Without(f.recent, ps)]

\* os.rename(src, dst): dst takes src's content, src is gone.  No name a file
\* is renamed to matches the temp pattern.
FsRename(f, src, dst) ==
    [size |-> [q \in ((DOMAIN f.size) \ {src}) \cup {dst} |->
                  IF q = dst THEN f.size[src] ELSE f.size[q]],
     recent |-> Without(f.recent, {src})]

generate_video_filename == <<"temp", now>>

\* The record appended to self.segments.
SegmentRecord(file, start, end) == [file |-> file, start |-> start, end |-> end]

(***************************************************************************)
(* Threads                                                                 *)
(***************************************************************************)
NoThreadState ==
    [kind |-> "none", pc |-> "none", seg_start |-> NoTime, seg_end |-> NoTime,
     video_file |-> NoPath, audio_file |-> NoPath,
     audio_started |-> FALSE, recording_started |-> FALSE, was_recording |-> FALSE,
     file_exists |-> FALSE, waited |-> 0, chunk |-> 0, raised |-> FALSE, rollovers |-> 0,
     frozen |-> NoTime]

Alive(t) == thr[t].pc \notin {"none", "done"}

Created == {t \in Threads : thr[t].kind # "none"}

NewThread == Cardinality(Created) + 1

\* A thread that has ended: its locals are gone.
Ended(t, exc) ==
    thr' = [thr EXCEPT ![t] = [NoThreadState EXCEPT !.kind = thr[t].kind, !.pc = "done",
                                                    !.chunk = thr[t].chunk, !.raised = exc,
                                                    !.rollovers = thr[t].rollovers]]

Set(t, f) == thr' = [thr EXCEPT ![t] = f]

(***************************************************************************)
(* The GPIO poll loop (gpio_handler.py)                                    *)
(*                                                                         *)
(* Times of the poll loop are in units of 50 ms.  gpio.time is what        *)
(* time.time() returns at the next poll, counted from the first poll.      *)
(* History: a button's held is the number of polls in a row that read it   *)
(* low, triggered the number of calls of its action; polls counts the      *)
(* iterations of the loop.  The action a button calls (toggle_video_       *)
(* recording, handle_capture_image, toggle_audio_recording) is counted,    *)
(* not run: an exception it raises is caught next to the call.             *)
(***************************************************************************)
\* self.poll_interval = 0.1 and self.debounce_time = 0.05.
PollInterval == 2
DebounceTime == 1

Buttons == {"video", "image", "audio"}

\* The loop's locals and the *_pressed flag of one button, before the first poll.
ButtonIdle == [last_state |-> "HIGH", press_time |-> 0, pressed |-> FALSE,
               held |-> 0, triggered |-> 0]

\* The state after GPIOHandler.__init__, when poll_gpio is about to enter its loop.
GPIOHandler == [running |-> TRUE, time |-> 0, polls |-> 0,
                btn |-> [b \in Buttons |-> ButtonIdle]]

recorderState == <<recorderVars, thr, caller, now, fs, cam, audio, chunks, returns>>

\* One button's block of the loop, without the test of the *_pressed flag.
ButtonPollUnlatched(o, state, current_time) ==
    LET h == IF state = "LOW" THEN o.held + 1 ELSE 0
        p == [o EXCEPT !.last_state = state, !.held = h]
    IN  IF state = "LOW"
        THEN IF o.last_state = "HIGH"
             THEN [p EXCEPT !.press_time = current_time]
             ELSE IF (current_time - o.press_time) >= DebounceTime
                  THEN [p EXCEPT !.pressed = TRUE, !.triggered = o.triggered + 1]
                  ELSE p
        ELSE [p EXCEPT !.pressed = FALSE]

\* One button's block of the loop: o is the button's state, state the level
\* GPIO.input returned, current_time the time read at the top of the iteration.
ButtonPoll(o, state, current_time) ==
    LET h == IF state = "LOW" THEN o.held + 1 ELSE 0
        p == [o EXCEPT !.last_state = state, !.held = h]
    IN  IF state = "LOW"
        THEN IF o.last_state = "HIGH"
             THEN [p EXCEPT !.press_time = current_time]
             ELSE IF ~o.pressed /\ (current_time - o.press_time) >= DebounceTime
                  THEN [p EXCEPT !.pressed = TRUE, !.triggered = o.triggered + 1]
                  ELSE p
        ELSE [p EXCEPT !.pressed = FALSE]

\* One iteration of the loop in which the three reads succeed, and the sleep
\* after it: the next iteration reads the time at least poll_interval later.
Poll ==
    /\ gpio.running
    /\ gpio.polls < MaxPolls
    /\ \E state \in [Buttons -> {"LOW", "HIGH"}], lag \in 0..MaxLag :
         gpio' = [gpio EXCEPT !.btn = [b \in Buttons |-> ButtonPoll(gpio.btn[b], state[b], gpio.time)],
                              !.time = gpio.time + PollInterval + lag,
                              !.polls = gpio.polls + 1]
    /\ UNCHANGED recorderState

\* One iteration in which GPIO.input raises: the outer handler prints, sleeps
\* and the loop goes on; no button's block has run.
PollError ==
    /\ gpio.running
    /\ gpio.polls < MaxPolls
    /\ \E lag \in 0..MaxLag :
         gpio' = [gpio EXCEPT !.time = gpio.time + PollInterval + lag,
                              !.polls = gpio.polls + 1]
    /\ UNCHANGED recorderState

\* cleanup(): the loop ends at its next test of self.running.
cleanup ==
    /\ gpio.running
    /\ gpio' = [gpio EXCEPT !.running = FALSE]
    /\ UNCHANGED recorderState

poll_gpio == Poll \/ PollError

\* The state after VideoRecorder.__init__, with a caller that makes up to
\* budget calls of start_recording and stop_recording.
Constructed(budget) ==
    /\ recording = FALSE
    /\ with_audio = FALSE
    /\ segments = <<>>
    /\ current_video_file = NoPath
    /\ current_segment_start = NoTime
    /\ stop_monitor = FALSE
    /\ session_counter = 1
    /\ chunk_num = 1
    /\ monitor_thread = NoThread
    /\ segmentation_thread = NoThread
    /\ thr = [t \in Threads |-> NoThreadState]
    /\ caller = [pc |-> "idle", waited |-> 0, calls |-> 0, budget |-> budget, last |-> "none",
                 began |-> NoTime, worker |-> NoThread, closed |-> FALSE]
    /\ now = 0
    /\ fs = [size |-> <<>>, recent |-> <<>>]
    /\ cam = [open |-> {}, writable |-> {}]
    /\ audio = [segment_start_time |-> NoTime, live |-> 0]
    /\ chunks = <<>>
    /\ returns = <<>>
    /\ gpio = GPIOHandler

Init == Constructed(MaxCalls)

(***************************************************************************)
(* The Capture Driver and the encoder behind it                            *)
(***************************************************************************)
\* picam2.start_recording(encoder, FfmpegOutput(f)) returned normally: f is the
\* target of a started capture.  The encoder serves one output at a time, so
\* the output of a capture stopped earlier is closed by now.
CameraStarted(f) ==
    [open |-> cam.open \cup {f}, writable |-> (cam.writable \cap cam.open) \cup {f}]

\* picam2.stop_recording() was issued (whether it returned or raised): no
\* capture remains started; ffmpeg may still flush what it holds.
CameraStopped == [cam EXCEPT !.open = {}]

\* The encoder writes to a target: the file appears or grows.  A write after
\* the stop is the flush that closes the file.
EncoderWrite ==
    /\ \E f \in cam.writable :
       \E sz \in 0..Threshold :
          /\ Exists(f) => sz > fs.size[f]
          /\ fs' = FsPut(fs, f, sz)
          /\ cam' = IF f \in cam.open THEN cam
                    ELSE [cam EXCEPT !.writable = cam.writable \ {f}]
    /\ UNCHANGED <<recorderVars, thr, caller, now, audio, chunks, returns>>
    /\ UNCHANGED gpio

(***************************************************************************)
(* start_recording (the caller)                                            *)
(***************************************************************************)
\* The calls of start_recording and stop_recording made so far.
Calls == caller.calls

Called(result) == [caller EXCEPT !.calls = caller.calls + 1, !.last = result]

\* Lines 188-190: a session is recording, the request is ignored.
StartIgnored ==
    /\ caller' = Called("ignored")
    /\ UNCHANGED <<recorderVars, thr, now, fs, cam, audio, chunks, returns>>

\* Lines 204-209: audio+video, the segmentation thread is created and started.
StartSegmentation ==
    /\ segmentation_thread' = NewThread
    /\ thr' = [thr EXCEPT ![NewThread] = [NoThreadState EXCEPT !.kind = "seg", !.pc = "seg_init"]]
    /\ recording' = TRUE
    /\ caller' = [Called("started") EXCEPT !.began = now, !.worker = NewThread]
    /\ UNCHANGED <<current_video_file, stop_monitor, monitor_thread, cam>>

\* Lines 211-230: video-only, the capture is started on a generated target and
\* the monitor thread is created; a start the Capture Driver rejects ends the session.
StartVideoOnly ==
    /\ current_video_file' = generate_video_filename
    /\ \E ok \in BOOLEAN :
          IF ok
          THEN /\ cam' = CameraStarted(generate_video_filename)
               /\ stop_monitor' = FALSE
               /\ monitor_thread' = NewThread
               /\ thr' = [thr EXCEPT ![NewThread] =
                             [NoThreadState EXCEPT !.kind = "mon", !.pc = "mon_check"]]
               /\ recording' = TRUE
               /\ caller' = [Called("started") EXCEPT !.began = now, !.worker = NewThread]
          ELSE /\ recording' = FALSE
               /\ caller' = [Called("start_failed") EXCEPT !.began = now, !.worker = NoThread]
               /\ UNCHANGED <<cam, stop_monitor, monitor_thread, thr>>
    /\ UNCHANGED segmentation_thread

\* Lines 192-230: the session begins.
StartBegin(w) ==
    /\ NewThread <= MaxThreads
    /\ with_audio' = w
    /\ segments' = <<>>
    /\ current_segment_start' = now
    /\ IF w THEN StartSegmentation ELSE StartVideoOnly
    /\ UNCHANGED <<session_counter, chunk_num, now, fs, audio, chunks, returns>>

\* start_recording without the test of lines 188-190.
start_recording_unguarded(w) ==
    /\ caller.pc = "idle"
    /\ Calls < caller.budget
    /\ StartBegin(w)
    /\ UNCHANGED gpio

start_recording(w) ==
    /\ caller.pc = "idle"
    /\ Calls < caller.budget
    /\ IF recording THEN StartIgnored ELSE StartBegin(w)
    /\ UNCHANGED gpio

CallStart == \E w \in BOOLEAN : start_recording(w)

(***************************************************************************)
(* History of the chunks of the segmentation workers                       *)
(***************************************************************************)
NewChunk(t, f) ==
    Append(chunks, [thread |-> t, file |-> f, outcomes |-> <<>>, stop_seen |-> FALSE,
                    session |-> session_counter])

Outcome(c, o) == [chunks EXCEPT ![c].outcomes = Append(chunks[c].outcomes, o)]

\* The chunks whose capture is running: started, and not yet stopped by their worker.
Capturing(c) == \E t \in Threads : thr[t].chunk = c /\ thr[t].pc = "seg_wait"

(***************************************************************************)
(* stop_recording (the caller)                                             *)
(***************************************************************************)
\* A stop that follows a stop with no start_recording in between is "restopping".
Stopping == Called(IF caller.last = "stopped" THEN "restopping" ELSE "stopping")

\* Lines 520-529: the flag is cleared and the branch is chosen.
stop_recording ==
    /\ caller.pc = "idle"
    /\ Calls < caller.budget
    /\ recording' = FALSE
    /\ IF with_audio /\ segmentation_thread # NoThread
       THEN /\ caller' = [Stopping EXCEPT !.pc = "join_seg", !.waited = 0]
            /\ UNCHANGED stop_monitor
       ELSE /\ stop_monitor' = TRUE
            /\ caller' = [Stopping EXCEPT !.pc = "join_mon", !.waited = 0]
    /\ chunks' = [c \in DOMAIN chunks |->
                     IF Capturing(c) THEN [chunks[c] EXCEPT !.stop_seen = TRUE] ELSE chunks[c]]
    /\ UNCHANGED <<with_audio, segments, current_video_file, current_segment_start,
                   session_counter, chunk_num, monitor_thread, segmentation_thread,
                   thr, now, fs, cam, audio, returns>>
    /\ UNCHANGED gpio

\* thread.join() without a timeout: returns when the thread has ended.
JoinWithoutTimeout(t, nxt) ==
    /\ ~Alive(t)
    /\ now' = now
    /\ caller' = [caller EXCEPT !.pc = nxt]

\* thread.join(timeout): returns when the thread has ended, or when the timeout
\* has passed with the thread still running.
JoinReturns(t, nxt) ==
    IF Alive(t)
    THEN /\ now < MaxTime
         /\ now' = now + 1
         /\ caller' = [caller EXCEPT !.pc = nxt]
    ELSE /\ now' = now
         /\ caller' = [caller EXCEPT !.pc = nxt]

\* Line 525: self.segmentation_thread.join(timeout=10)
JoinSegmentation ==
    /\ caller.pc = "join_seg"
    /\ JoinReturns(segmentation_thread, "rename")
    /\ UNCHANGED <<recorderVars, thr, fs, cam, audio, chunks, returns>>
    /\ UNCHANGED gpio

\* Lines 530-531: if self.monitor_thread: self.monitor_thread.join(timeout=2)
JoinMonitor ==
    /\ caller.pc = "join_mon"
    /\ IF monitor_thread = NoThread
       THEN caller' = [caller EXCEPT !.pc = "stop_camera"] /\ now' = now
       ELSE JoinReturns(monitor_thread, "stop_camera")
    /\ UNCHANGED <<recorderVars, thr, fs, cam, audio, chunks, returns>>
    /\ UNCHANGED gpio

\* Lines 535-548 without the try/except of lines 536-541: an error of the
\* Capture Driver's stop leaves stop_recording.
StopCameraUncaught ==
    /\ caller.pc = "stop_camera"
    /\ now < MaxTime
    /\ cam' = CameraStopped
    /\ \E ok \in BOOLEAN :
          IF ok
          THEN /\ now' = now + 1
               /\ caller' = [caller EXCEPT !.pc = IF current_video_file # NoPath
                                                  THEN "final_poll" ELSE "rename"]
          ELSE /\ now' = now
               /\ caller' = [caller EXCEPT !.pc = "raised"]
    /\ UNCHANGED <<recorderVars, thr, fs, audio, chunks, returns>>
    /\ UNCHANGED gpio

\* Lines 535-548: the capture is stopped (an error of the Capture Driver is
\* caught and logged), then time.sleep(1.0).
StopCamera ==
    /\ caller.pc = "stop_camera"
    /\ now < MaxTime
    /\ cam' = CameraStopped
    /\ now' = now + 1
    /\ caller' = [caller EXCEPT !.pc = IF current_video_file # NoPath THEN "final_poll" ELSE "rename"]
    /\ UNCHANGED <<recorderVars, thr, fs, audio, chunks, returns>>
    /\ UNCHANGED gpio

\* stop_recording's poll with the directory scan of the segmentation worker
\* added: when the closing file has no content after the last turn, the most
\* recently modified temp file is recorded in its place.
FinalPollRecovering ==
    /\ caller.pc = "final_poll"
    /\ IF NonEmpty(current_video_file)
       THEN /\ segments' = Append(segments,
                   SegmentRecord(current_video_file, current_segment_start, now))
            /\ caller' = [caller EXCEPT !.pc = "rename", !.waited = 0, !.closed = TRUE]
       ELSE IF caller.waited + 1 >= ReadyPolls
       THEN /\ segments' = IF fs.recent # <<>> /\ NonEmpty(Head(fs.recent))
                           THEN Append(segments,
                                   SegmentRecord(Head(fs.recent), current_segment_start, now))
                           ELSE segments
            /\ caller' = [caller EXCEPT !.pc = "rename", !.waited = 0]
       ELSE /\ segments' = segments
            /\ caller' = [caller EXCEPT !.waited = caller.waited + 1]
    /\ UNCHANGED <<recording, with_audio, current_video_file, current_segment_start,
                   stop_monitor, session_counter, chunk_num, monitor_thread,
                   segmentation_thread, thr, now, fs, cam, audio, chunks, returns>>
    /\ UNCHANGED gpio

\* Lines 552-586: one turn of the bounded poll for the closing file; after the
\* last turn the closing segment is appended if the file has content.
FinalPoll ==
    /\ caller.pc = "final_poll"
    /\ IF NonEmpty(current_video_file)
       THEN /\ segments' = Append(segments,
                   SegmentRecord(current_video_file, current_segment_start, now))
            /\ caller' = [caller EXCEPT !.pc = "rename", !.waited = 0, !.closed = TRUE]
       ELSE IF caller.waited + 1 >= ReadyPolls
       THEN /\ segments' = segments
            /\ caller' = [caller EXCEPT !.pc = "rename", !.waited = 0]
       ELSE /\ segments' = segments
            /\ caller' = [caller EXCEPT !.waited = caller.waited + 1]
    /\ UNCHANGED <<recording, with_audio, current_video_file, current_segment_start,
                   stop_monitor, session_counter, chunk_num, monitor_thread,
                   segmentation_thread, thr, now, fs, cam, audio, chunks, returns>>
    /\ UNCHANGED gpio

\* Line 597 and lines 600-603: the delivery filename of the idx-th ledger entry.
Prefix == IF with_audio THEN "merged" ELSE "vdo"

\* The delivery filename with self.chunk_num in the place of idx.
FinalNameByChunkNum(idx, seg) ==
    <<Prefix, session_counter, chunk_num, seg.start, seg.end, Category>>

FinalName(idx, seg) == <<Prefix, session_counter, idx, seg.start, seg.end, Category>>

\* The rename loop without the try/except of lines 604-614: the first os.rename
\* that fails ends the loop.
RECURSIVE RenameLoopAborting(_, _, _, _)
RenameLoopAborting(f, idx, out, fails) ==
    IF idx > Len(segments) \/ (segments[idx].file \in DOMAIN f.size /\ idx \in fails)
    THEN [fs |-> f, out |-> out]
    ELSE LET seg == segments[idx]
             renamed == seg.file \in DOMAIN f.size
         IN RenameLoopAborting(IF renamed THEN FsRename(f, seg.file, FinalName(idx, seg)) ELSE f,
                               idx + 1,
                               Append(out, [file |-> IF renamed THEN FinalName(idx, seg)
                                                     ELSE seg.file,
                                            start |-> seg.start, end |-> seg.end,
                                            src |-> seg.file]),
                               fails)

\* Lines 599-618: the rename loop from entry idx on, over the files f.  os.rename
\* fails for the entries in fails; then, and when the source does not exist,
\* the ledger's own path is returned.
RECURSIVE RenameLoop(_, _, _, _)
RenameLoop(f, idx, out, fails) ==
    IF idx > Len(segments)
    THEN [fs |-> f, out |-> out]
    ELSE LET seg == segments[idx]
             final == FinalName(idx, seg)
             renamed == seg.file \in DOMAIN f.size /\ idx \notin fails
         IN RenameLoop(IF renamed THEN FsRename(f, seg.file, final) ELSE f,
                       idx + 1,
                       Append(out, [file |-> IF renamed THEN final ELSE seg.file,
                                    start |-> seg.start, end |-> seg.end, src |-> seg.file]),
                       fails)

\* Lines 596-623: the ledger is read and renamed, the counters are set and the
\* list is returned.
Finalize ==
    /\ caller.pc = "rename"
    /\ \E fails \in SUBSET (1..Len(segments)) :
          LET r == RenameLoop(fs, 1, <<>>, fails)
          IN /\ fs' = r.fs
             /\ returns' = Append(returns,
                    [segments |-> r.out, began |-> caller.began, with_audio |-> with_audio,
                     again |-> caller.last = "restopping", worker |-> caller.worker,
                     closed |-> caller.closed,
                     rollovers |-> IF caller.worker = NoThread THEN 0
                                   ELSE thr[caller.worker].rollovers])
    /\ session_counter' = session_counter + 1
    /\ chunk_num' = 1
    /\ caller' = [caller EXCEPT !.pc = "idle", !.last = "stopped", !.closed = FALSE]
    /\ UNCHANGED <<recording, with_audio, segments, current_video_file, current_segment_start,
                   stop_monitor, monitor_thread, segmentation_thread, thr, now, cam,
                   audio, chunks>>
    /\ UNCHANGED gpio

(***************************************************************************)
(* monitor_video_size (the monitor thread of a video-only session)         *)
(***************************************************************************)
\* Lines 238-240: a rollover is due when the current file exists and its size
\* has reached the threshold.
RolloverDue == AtThreshold(current_video_file)

\* Lines 237-241 and 263: the loop test and the size test; segment_end is taken
\* when a rollover is due, otherwise the thread sleeps monitor_interval.
\* video_file remembers the file the size test was made on.
MonCheck(t) ==
    /\ thr[t].pc = "mon_check"
    /\ IF ~(recording /\ ~stop_monitor)
       THEN /\ Ended(t, FALSE)
            /\ now' = now
       ELSE IF RolloverDue
       THEN /\ Set(t, [thr[t] EXCEPT !.pc = "mon_stop", !.seg_end = now,
                                     !.video_file = current_video_file])
            /\ now' = now
       ELSE /\ now < MaxTime
            /\ now' = now + 1
            /\ thr' = thr
    /\ UNCHANGED <<recorderVars, caller, fs, cam, audio, chunks, returns>>
    /\ UNCHANGED gpio

\* Lines 242-254: the capture is stopped (an error is caught and printed) and
\* the closed chunk's record is appended.
MonStop(t) ==
    /\ thr[t].pc = "mon_stop"
    /\ cam' = CameraStopped
    /\ segments' = Append(segments,
           SegmentRecord(current_video_file, current_segment_start, thr[t].seg_end))
    /\ Set(t, [thr[t] EXCEPT !.pc = "mon_next", !.rollovers = thr[t].rollovers + 1])
    /\ UNCHANGED <<recording, with_audio, current_video_file, current_segment_start,
                   stop_monitor, session_counter, chunk_num, monitor_thread,
                   segmentation_thread, caller, now, fs, audio, chunks, returns>>
    /\ UNCHANGED gpio

\* Lines 257-263, without line 256: current_segment_start keeps its value.
MonNextKeepsStart(t) ==
    /\ thr[t].pc = "mon_next"
    /\ current_segment_start' = current_segment_start
    /\ current_video_file' = generate_video_filename
    /\ \E ok \in BOOLEAN :
          IF ok
          THEN /\ now < MaxTime
               /\ now' = now + 1
               /\ cam' = CameraStarted(generate_video_filename)
               /\ Set(t, [thr[t] EXCEPT !.pc = "mon_check", !.seg_end = NoTime,
                                        !.video_file = NoPath])
          ELSE /\ now' = now
               /\ cam' = cam
               /\ Ended(t, TRUE)
    /\ UNCHANGED <<recording, with_audio, segments, stop_monitor, session_counter, chunk_num,
                   monitor_thread, segmentation_thread, caller, fs, audio, chunks, returns>>
    /\ UNCHANGED gpio

\* Lines 256-263: the next chunk starts where this one ended, on a new target,
\* and the thread sleeps monitor_interval; a start the Capture Driver rejects
\* is not caught and ends the thread.
MonNext(t) ==
    /\ thr[t].pc = "mon_next"
    /\ current_segment_start' = thr[t].seg_end
    /\ current_video_file' = generate_video_filename
    /\ \E ok \in BOOLEAN :
          IF ok
          THEN /\ now < MaxTime
               /\ now' = now + 1
               /\ cam' = CameraStarted(generate_video_filename)
               /\ Set(t, [thr[t] EXCEPT !.pc = "mon_check", !.seg_end = NoTime,
                                        !.video_file = NoPath])
          ELSE /\ now' = now
               /\ cam' = cam
               /\ Ended(t, TRUE)
    /\ UNCHANGED <<recording, with_audio, segments, stop_monitor, session_counter, chunk_num,
                   monitor_thread, segmentation_thread, caller, fs, audio, chunks, returns>>
    /\ UNCHANGED gpio

(***************************************************************************)
(* AudioRecorder, segmented recording                                      *)
(***************************************************************************)
\* Lines 109-114 and 126: segment_start_time is taken, the audio thread is
\* started and opens the temp wave file.
start_segmented_recording(f) ==
    /\ audio' = [segment_start_time |-> now, live |-> audio.live + 1]
    /\ fs' = FsPut(f, TempAudio, 1)

\* Line 153: the name the finished audio segment is renamed to.
AudioSegName(end) == <<"audio_seg", audio.segment_start_time, end>>

\* Lines 145-159, called at time end: the audio thread is stopped and joined
\* (it closes the wave file), the temp file is renamed; a failed rename returns
\* the temp path.
stop_segmented_recording_result(end) ==
    IF Exists(TempAudio) THEN AudioSegName(end) ELSE TempAudio

stop_segmented_recording(end) ==
    /\ audio' = [audio EXCEPT !.live = IF audio.live > 0 THEN audio.live - 1 ELSE 0]
    /\ fs' = IF Exists(TempAudio) THEN FsRename(fs, TempAudio, AudioSegName(end)) ELSE fs

(***************************************************************************)
(* merge_video_audio (the Muxer)                                           *)
(***************************************************************************)
\* Lines 471-477: the merged file's name, from the counters as they are now.
MergedName(t) == <<"merged", session_counter, chunk_num, thr[t].seg_start, thr[t].seg_end, "">>

\* Lines 484-511.  The command holds audio_file: with None in it, subprocess.run
\* raises TypeError.  Otherwise the tool succeeds, exits non-zero
\* (CalledProcessError) or cannot be run at all (an exception other than
\* CalledProcessError, which merge_video_audio does not catch).
MergeOutcomes(t) ==
    IF thr[t].audio_file = NoPath THEN {"raise"}
    ELSE {"fail", "raise"} \cup
         (IF Exists(thr[t].video_file) /\ Exists(thr[t].audio_file) THEN {"ok"} ELSE {})

\* Lines 496-511, for the outcomes that return: on success both inputs are
\* removed and the merged path is returned, on CalledProcessError None.
merge_video_audio(t, o) ==
    IF o = "ok"
    THEN [fs |-> FsPut(FsRemove(fs, {thr[t].video_file, thr[t].audio_file}),
                       MergedName(t), fs.size[thr[t].video_file]),
          merged_file |-> MergedName(t)]
    ELSE [fs |-> fs, merged_file |-> NoPath]

\* Lines 369-389 (and 437-456): the chunk's record, merged or raw, given what
\* merge_video_audio returned.
RecordChunk(t, m) ==
    IF m.merged_file # NoPath /\ m.merged_file \in DOMAIN m.fs.size
    THEN /\ segments' = Append(segments,
                SegmentRecord(m.merged_file, thr[t].seg_start, thr[t].seg_end))
         /\ chunks' = Outcome(thr[t].chunk, "merged")
    ELSE IF thr[t].video_file \in DOMAIN m.fs.size
    THEN /\ segments' = Append(segments,
                SegmentRecord(thr[t].video_file, thr[t].seg_start, thr[t].seg_end))
         /\ chunks' = Outcome(thr[t].chunk, "raw")
    ELSE /\ segments' = segments
         /\ chunks' = chunks

(***************************************************************************)
(* _record_with_segmentation (the worker of an audio+video session)        *)
(***************************************************************************)
\* Lines 274-278: the locals; seg_start is read from the recorder.
SegInit(t) ==
    /\ thr[t].pc = "seg_init"
    /\ Set(t, [thr[t] EXCEPT !.pc = "seg_loop", !.seg_start = current_segment_start])
    /\ UNCHANGED <<recorderVars, caller, now, fs, cam, audio, chunks, returns>>
    /\ UNCHANGED gpio

\* Lines 282-291: a new target is generated and the capture and the audio of
\* the chunk are started; an exception of either start goes to line 459.
StartChunk(t) ==
    /\ Len(chunks) < MaxChunks
    /\ \E camera_ok, audio_ok \in BOOLEAN :
          IF ~camera_ok
          THEN /\ Ended(t, TRUE)
               /\ UNCHANGED <<cam, chunks, audio, fs>>
          ELSE /\ cam' = CameraStarted(generate_video_filename)
               /\ chunks' = NewChunk(t, generate_video_filename)
               /\ IF audio_ok
                  THEN /\ start_segmented_recording(fs)
                       /\ Set(t, [thr[t] EXCEPT !.pc = "seg_wait",
                                     !.video_file = generate_video_filename,
                                     !.recording_started = TRUE, !.audio_started = TRUE,
                                     !.chunk = Len(chunks) + 1])
                  ELSE /\ UNCHANGED <<audio, fs>>
                       /\ thr' = [thr EXCEPT ![t] =
                              [NoThreadState EXCEPT !.kind = "seg", !.pc = "done",
                                                    !.chunk = Len(chunks) + 1, !.raised = TRUE]]

\* Line 399: after the loop, a capture that still counts as started is closed.
AfterLoop(t) ==
    /\ IF thr[t].recording_started /\ thr[t].video_file # NoPath
       THEN Set(t, [thr[t] EXCEPT !.pc = "fin_stop"])
       ELSE Ended(t, FALSE)
    /\ UNCHANGED <<cam, chunks, audio, fs>>

\* Line 281: while self.recording
SegLoop(t) ==
    /\ thr[t].pc = "seg_loop"
    /\ IF recording THEN StartChunk(t) ELSE AfterLoop(t)
    /\ UNCHANGED <<recorderVars, caller, now, returns>>
    /\ UNCHANGED gpio

\* The wait of lines 295-299 as "while True": it ends at the threshold only.
SegWaitUntilThreshold(t) ==
    /\ thr[t].pc = "seg_wait"
    /\ IF AtThreshold(thr[t].video_file)
       THEN /\ Set(t, [thr[t] EXCEPT !.pc = "seg_cam_stop"])
            /\ now' = now
       ELSE /\ now < MaxTime
            /\ now' = now + 1
            /\ thr' = thr
    /\ UNCHANGED <<recorderVars, caller, fs, cam, audio, chunks, returns>>
    /\ UNCHANGED gpio

\* Lines 295-299: until the threshold is reached or the flag is cleared.
SegWait(t) ==
    /\ thr[t].pc = "seg_wait"
    /\ IF ~recording \/ AtThreshold(thr[t].video_file)
       THEN /\ Set(t, [thr[t] EXCEPT !.pc = "seg_cam_stop"])
            /\ now' = now
       ELSE /\ now < MaxTime
            /\ now' = now + 1
            /\ thr' = thr
    /\ UNCHANGED <<recorderVars, caller, fs, cam, audio, chunks, returns>>
    /\ UNCHANGED gpio

\* Lines 319-328 (and 409-416), at time end, on the locals f: the audio capture
\* is stopped; an exception leaves audio_file None.
StopAudio(t, f, nxt, end) ==
    IF f.audio_started
    THEN \E ok \in BOOLEAN :
            IF ok
            THEN /\ stop_segmented_recording(end)
                 /\ Set(t, [f EXCEPT !.pc = nxt, !.audio_started = FALSE, !.waited = 0,
                                     !.file_exists = FALSE, !.seg_end = end,
                                     !.audio_file = stop_segmented_recording_result(end)])
            ELSE /\ UNCHANGED <<audio, fs>>
                 /\ Set(t, [f EXCEPT !.pc = nxt, !.audio_started = FALSE, !.waited = 0,
                                     !.file_exists = FALSE, !.seg_end = end,
                                     !.audio_file = NoPath])
    ELSE /\ UNCHANGED <<audio, fs>>
         /\ Set(t, [f EXCEPT !.pc = nxt, !.waited = 0, !.file_exists = FALSE,
                             !.seg_end = end, !.audio_file = NoPath])

\* Lines 303-314: the capture is stopped (when the Capture Driver raises,
\* recording_started keeps its value), then time.sleep(2.0) while the audio
\* capture still runs.  frozen is the time of the Capture Driver's stop.
SegStop(t) ==
    /\ thr[t].pc = "seg_cam_stop"
    /\ now < MaxTime
    /\ now' = now + 1
    /\ cam' = IF thr[t].recording_started THEN CameraStopped ELSE cam
    /\ \E ok \in BOOLEAN :
          Set(t, [thr[t] EXCEPT !.pc = "seg_audio_stop", !.frozen = now,
                                !.was_recording = thr[t].recording_started,
                                !.recording_started = thr[t].recording_started /\ ~ok])
    /\ UNCHANGED <<recorderVars, caller, fs, audio, chunks, returns>>
    /\ UNCHANGED gpio

\* Lines 316-335: after the sleep seg_end is taken and the audio capture is
\* stopped.
SegStopAudio(t) ==
    /\ thr[t].pc = "seg_audio_stop"
    /\ StopAudio(t, thr[t], "seg_poll", now)
    /\ UNCHANGED <<recorderVars, caller, now, cam, chunks, returns>>
    /\ UNCHANGED gpio

\* Lines 353-359: the temp files of Videos/, most recently modified first.
TempFiles == fs.recent

\* The scan of lines 348-364 with the sort of line 359 ascending: the temp
\* file modified longest ago.
RecoveredOldest(t, ready) ==
    IF ~ready /\ thr[t].was_recording /\ TempFiles # <<>>
    THEN [video_file |-> TempFiles[Len(TempFiles)],
          file_exists |-> NonEmpty(TempFiles[Len(TempFiles)])]
    ELSE [video_file |-> thr[t].video_file, file_exists |-> ready]

\* Lines 348-364: the directory scan, when the expected file was not ready at
\* the end of the poll: the file the chunk is processed from, and whether it
\* has content.
Recovered(t, ready) ==
    IF ~ready /\ thr[t].was_recording /\ TempFiles # <<>>
    THEN [video_file |-> Head(TempFiles), file_exists |-> NonEmpty(Head(TempFiles))]
    ELSE [video_file |-> thr[t].video_file, file_exists |-> ready]

\* Lines 393-395 replaced by an error that leaves the loop.
AdvanceRaises(t, f) ==
    /\ chunk_num' = chunk_num
    /\ Ended(t, TRUE)

\* Lines 393-395 without line 395: the chunk index advances, seg_start keeps
\* its value.
AdvanceKeepsStart(t, f) ==
    /\ chunk_num' = chunk_num + 1
    /\ Set(t, [NoThreadState EXCEPT !.kind = "seg", !.pc = "seg_loop",
                                    !.seg_start = thr[t].seg_start, !.seg_end = thr[t].seg_end,
                                    !.video_file = f,
                                    !.recording_started = thr[t].recording_started,
                                    !.chunk = thr[t].chunk])

\* Lines 393-395: the chunk index advances, the next chunk starts where this one ended.
\* The locals that the next iteration assigns before it reads them are left out.
Advance(t, f) ==
    /\ chunk_num' = chunk_num + 1
    /\ Set(t, [NoThreadState EXCEPT !.kind = "seg", !.pc = "seg_loop",
                                    !.seg_start = thr[t].seg_end, !.seg_end = thr[t].seg_end,
                                    !.video_file = f,
                                    !.recording_started = thr[t].recording_started,
                                    !.chunk = thr[t].chunk])

\* Lines 336-367 and 390-395: one turn of the readiness poll; after the last
\* turn the directory scan, and the chunk goes to the Muxer or is skipped with
\* a warning.
SegPoll(t) ==
    /\ thr[t].pc = "seg_poll"
    /\ IF ~NonEmpty(thr[t].video_file) /\ thr[t].waited + 1 < ReadyPolls
       THEN /\ Set(t, [thr[t] EXCEPT !.waited = thr[t].waited + 1])
            /\ UNCHANGED <<chunks, chunk_num>>
       ELSE LET r == Recovered(t, NonEmpty(thr[t].video_file)) IN
            IF r.file_exists \/ NonEmpty(r.video_file)
            THEN /\ Set(t, [thr[t] EXCEPT !.pc = "seg_merge", !.video_file = r.video_file,
                                          !.file_exists = r.file_exists, !.waited = 0])
                 /\ UNCHANGED <<chunks, chunk_num>>
            ELSE /\ Advance(t, r.video_file)
                 /\ chunks' = Outcome(thr[t].chunk, "lost")
    /\ UNCHANGED <<recording, with_audio, segments, current_video_file, current_segment_start,
                   stop_monitor, session_counter, monitor_thread, segmentation_thread,
                   caller, now, fs, cam, audio, returns>>
    /\ UNCHANGED gpio

\* Lines 368-395: the Muxer is invoked and the chunk is recorded; an exception
\* of the Muxer goes to line 459.
SegProcess(t) ==
    /\ thr[t].pc = "seg_merge"
    /\ \E o \in MergeOutcomes(t) :
          IF o = "raise"
          THEN /\ Ended(t, TRUE)
               /\ UNCHANGED <<fs, segments, chunks, chunk_num>>
          ELSE /\ fs' = merge_video_audio(t, o).fs
               /\ RecordChunk(t, merge_video_audio(t, o))
               /\ Advance(t, thr[t].video_file)
    /\ UNCHANGED <<recording, with_audio, current_video_file, current_segment_start,
                   stop_monitor, session_counter, monitor_thread,
                   segmentation_thread, caller, now, cam, audio, returns>>
    /\ UNCHANGED gpio

\* Lines 401-423: the capture is stopped again, time.sleep(2.0), the audio is
\* stopped if it still runs, seg_end is taken.
FinStop(t) ==
    /\ thr[t].pc = "fin_stop"
    /\ now < MaxTime
    /\ now' = now + 1
    /\ cam' = CameraStopped
    /\ StopAudio(t, thr[t], "fin_poll", now + 1)
    /\ UNCHANGED <<recorderVars, caller, chunks, returns>>
    /\ UNCHANGED gpio

\* Lines 424-458: one turn of the poll for the final file; after the last turn
\* the final segment is merged and recorded, or reported missing.
FinPoll(t) ==
    /\ thr[t].pc = "fin_poll"
    /\ IF ~NonEmpty(thr[t].video_file) /\ thr[t].waited + 1 < ReadyPolls
       THEN /\ Set(t, [thr[t] EXCEPT !.waited = thr[t].waited + 1])
            /\ UNCHANGED <<fs, segments, chunks>>
       ELSE IF NonEmpty(thr[t].video_file)
       THEN \E o \in MergeOutcomes(t) :
               IF o = "raise"
               THEN /\ Ended(t, TRUE)
                    /\ UNCHANGED <<fs, segments, chunks>>
               ELSE /\ fs' = merge_video_audio(t, o).fs
                    /\ RecordChunk(t, merge_video_audio(t, o))
                    /\ Ended(t, FALSE)
       ELSE /\ Ended(t, FALSE)
            /\ chunks' = Outcome(thr[t].chunk, "lost")
            /\ UNCHANGED <<fs, segments>>
    /\ UNCHANGED <<recording, with_audio, current_video_file, current_segment_start,
                   stop_monitor, session_counter, chunk_num, monitor_thread,
                   segmentation_thread, caller, now, cam, audio, returns>>
    /\ UNCHANGED gpio

(***************************************************************************)
(* The specification                                                       *)
(***************************************************************************)
Caller ==
    \/ CallStart
    \/ stop_recording
    \/ JoinSegmentation
    \/ JoinMonitor
    \/ StopCamera
    \/ FinalPoll
    \/ Finalize

monitor_video_size(t) ==
    \/ MonCheck(t)
    \/ MonStop(t)
    \/ MonNext(t)

record_with_segmentation(t) ==
    \/ SegInit(t)
    \/ SegLoop(t)
    \/ SegWait(t)
    \/ SegStop(t)
    \/ SegStopAudio(t)
    \/ SegPoll(t)
    \/ SegProcess(t)
    \/ FinStop(t)
    \/ FinPoll(t)

Next ==
    \/ Caller
    \/ \E t \in Threads : monitor_video_size(t) \/ record_with_segmentation(t)
    \/ EncoderWrite

Spec == Init /\ [][Next]_vars

\* Video-only sessions alone, with one call more: two sessions can be started
\* and stopped.
InitVideoSessions == Constructed(MaxCalls + 1)

NextVideoSessions ==
    \/ start_recording(FALSE)
    \/ stop_recording
    \/ JoinMonitor
    \/ StopCamera
    \/ FinalPoll
    \/ Finalize
    \/ \E t \in Threads : monitor_video_size(t)
    \/ EncoderWrite

SpecVideoSessions == InitVideoSessions /\ [][NextVideoSessions]_vars

\* One audio+video session, two calls (a start and a stop).  Each worker is a
\* thread of its own: the scheduler lets it take its next step when it has one.
InitCancellation == Constructed(2)

NextCancellation ==
    \/ start_recording(TRUE)
    \/ stop_recording
    \/ JoinSegmentation
    \/ JoinMonitor
    \/ StopCamera
    \/ Finalize
    \/ \E t \in Threads : record_with_segmentation(t)
    \/ EncoderWrite

FairWorkers == \A t \in Threads : WF_vars(record_with_segmentation(t))

SpecCancellation == InitCancellation /\ [][NextCancellation]_vars /\ FairWorkers

\* Lines 522-623: what stop_recording does after it has cleared the flag.
StopContinues ==
    \/ JoinSegmentation
    \/ JoinMonitor
    \/ StopCamera
    \/ FinalPoll
    \/ Finalize

\* The caller's thread runs: a stop_recording that can take its next step
\* takes it.  Nothing is assumed about the workers.
SpecCallerRuns == Init /\ [][Next]_vars /\ WF_vars(StopContinues)

\* The poll loop on its own: the recorder stays as constructed.
NextGpio ==
    \/ poll_gpio
    \/ cleanup

SpecGpio == Init /\ [][NextGpio]_vars

(***************************************************************************)
(* The properties                                                          *)
(***************************************************************************)
Returned(i) == returns[i].segments

\* Consecutive segments of a returned list meet: end[k] = start[k+1].
Contiguous(s) == \A k \in 1..(Len(s) - 1) : s[k].end = s[k + 1].start

\* C1: the list stop_recording returns for a session is contiguous (each
\* segment ends where the next one starts) and its first segment starts at the
\* session start.
C1_ReturnedListContiguous ==
    \A i \in DOMAIN returns :
       ~returns[i].again =>
          /\ Contiguous(Returned(i))
          /\ Returned(i) # <<>> => Returned(i)[1].start = returns[i].began

\* The worker is through with chunk c: it has ended, or it works on a later chunk.
FinishedWith(c) == ~Alive(chunks[c].thread) \/ thr[chunks[c].thread].chunk # c

\* C2: a chunk the worker has started and is through with has exactly one
\* outcome among merged, raw and lost; no chunk ever has more than one.
C2_ExactlyOneOutcome ==
    \A c \in DOMAIN chunks :
       /\ Len(chunks[c].outcomes) <= 1
       /\ FinishedWith(c) => Len(chunks[c].outcomes) = 1

\* C3: a chunk that was being captured when stop_recording set the flag is
\* accounted for (merged, raw or lost) by the time its worker has exited.
C3_StoppedChunkAccounted ==
    \A c \in DOMAIN chunks :
       (chunks[c].stop_seen /\ ~Alive(chunks[c].thread)) => chunks[c].outcomes # <<>>

\* C4: start_recording while a session is recording changes nothing of the
\* recorder: no thread is created, the ledger, the mode, the counters, the
\* current segment start and the current video file stay as they are.
C4_StartWhileRecordingIsNoOp ==
    [][(recording /\ \E w \in BOOLEAN : start_recording(w))
          => UNCHANGED <<recorderVars, thr, fs, cam, audio>>]_vars

\* An ignored start_recording has returned and the session goes on.
C4_Witness == caller.last = "ignored" /\ recording /\ \E t \in Threads : Alive(t)

\* C5: in an audio+video session stop_recording reads the ledger only after
\* the segmentation worker has exited.
C5_LedgerReadAfterWorkerExit ==
    (caller.pc = "rename" /\ with_audio /\ segmentation_thread # NoThread)
        => ~Alive(segmentation_thread)

\* C6: at most one worker (segmentation thread or monitor thread) is alive at
\* any instant.
C6_AtMostOneWorkerAlive == Cardinality({t \in Threads : Alive(t)}) <= 1

\* start_recording has not been called on this recorder.
NeverStarted == caller.began = NoTime

\* C7: on a recorder that was never started, stop_recording raises no error
\* and every list it returns is empty.
C7_StopWithoutStart ==
    NeverStarted => (caller.pc # "raised" /\ \A i \in DOMAIN returns : Returned(i) = <<>>)

\* stop_recording has returned on a recorder that was never started.
C7_Witness == NeverStarted /\ returns # <<>> /\ caller.pc = "idle"

\* C8: a stop_recording that follows a stop_recording with no start_recording
\* in between returns an empty list.
C8_SecondStopReturnsNothing ==
    \A i \in DOMAIN returns : returns[i].again => Returned(i) = <<>>

\* C9: the chunk the monitor closes is the one whose file it has found at the
\* threshold: a chunk whose file was not tested at or above the threshold is
\* not split.
C9_RolloverOnlyAtThreshold ==
    [][\A t \in Threads :
          (thr[t].pc = "mon_stop" /\ thr'[t].pc = "mon_next")
              => thr[t].video_file = current_video_file]_vars

\* The readiness poll of worker t ends in this step without the expected file
\* being ready, and Videos/ holds temp files.
PollExhausted(t) ==
    /\ thr[t].pc = "seg_poll"
    /\ thr'[t].pc # "seg_poll"
    /\ ~NonEmpty(thr[t].video_file)
    /\ thr[t].was_recording
    /\ fs.recent # <<>>

\* C10: when the readiness poll is exhausted and Videos/ holds temp files, the
\* chunk's video becomes the temp file modified last, and the chunk goes to
\* the Muxer if that file is non-empty.
C10_RecoverySelectsMostRecent ==
    [][\A t \in Threads :
          PollExhausted(t) =>
             /\ thr'[t].video_file = fs.recent[1]
             /\ NonEmpty(fs.recent[1]) => thr'[t].pc = "seg_merge"]_vars

\* In the only session so far, a chunk is at the Muxer with the temp file
\* modified last, which is not the file its capture was started on.
C10_Witness ==
    \E t \in Threads :
       /\ Cardinality(Created) = 1
       /\ thr[t].pc = "seg_merge"
       /\ thr[t].video_file # chunks[thr[t].chunk].file
       /\ thr[t].video_file = fs.recent[1]

(***************************************************************************)
(* Merged, raw and lost chunks                                             *)
(***************************************************************************)
\* The chunks started by worker t.
ChunksOf(t) == {c \in DOMAIN chunks : chunks[c].thread = t}

HasOutcome(c, o) == \E k \in DOMAIN chunks[c].outcomes : chunks[c].outcomes[k] = o

\* Worker t records, in this step, the outcome o for its chunk.
Records(t, o) ==
    /\ thr[t].chunk \in DOMAIN chunks
    /\ chunks'[thr[t].chunk].outcomes = Append(chunks[thr[t].chunk].outcomes, o)

\* The stop_recording calls that close an audio+video session.
AudioStops == {i \in DOMAIN returns : returns[i].with_audio /\ ~returns[i].again}

\* The segments of the i-th returned list whose ledger path has prefix p.
FromPrefix(i, p) == {k \in DOMAIN Returned(i) : Returned(i)[k].src[1] = p}

\* C11: a successful merge removes the chunk's video and audio files and the
\* chunk is recorded under the merged path, which exists; the list
\* stop_recording returns for the session holds a merged_ segment for every
\* merged chunk of the session, and exactly one segment when the session had
\* one chunk and it was merged.
C11_MergedChunkReturned ==
    /\ [][\A t \in Threads :
             Records(t, "merged") =>
                /\ thr[t].video_file \notin DOMAIN fs'.size
                /\ thr[t].audio_file \notin DOMAIN fs'.size
                /\ MergedName(t) \in DOMAIN fs'.size
                /\ segments' = Append(segments,
                       SegmentRecord(MergedName(t), thr[t].seg_start, thr[t].seg_end))]_vars
    /\ [](\A i \in AudioStops :
             LET mine == {c \in ChunksOf(returns[i].worker) : HasOutcome(c, "merged")}
                 got == {k \in FromPrefix(i, "merged") : Returned(i)[k].file[1] = "merged"}
             IN /\ Cardinality(got) >= Cardinality(mine)
                /\ (mine # {} /\ Cardinality(ChunksOf(returns[i].worker)) = 1)
                      => Len(Returned(i)) = 1)

\* The audio+video sessions closed by the i-th stop_recording whose worker
\* started one chunk only, with the outcomes o.
OneChunkSession(i, o) ==
    /\ i \in AudioStops
    /\ Cardinality(ChunksOf(returns[i].worker)) = 1
    /\ \A c \in ChunksOf(returns[i].worker) : chunks[c].outcomes = o

\* C12: when the merge tool fails for the one chunk of an audio+video session,
\* the chunk's video and audio files stay on disk, and stop_recording returns
\* exactly one segment, whose path is not a merged_ name.
C12_FailedMergeReturnsRawVideo ==
    /\ [][\A t \in Threads : Records(t, "raw") => fs' = fs]_vars
    /\ [](\A i \in DOMAIN returns :
             OneChunkSession(i, <<"raw">>) =>
                /\ Len(Returned(i)) = 1
                /\ Returned(i)[1].file[1] # "merged")

\* Worker t invokes the Muxer in this step (line 368, or line 436 after the loop).
MergeAttempt(t) ==
    /\ thr'[t] # thr[t]
    /\ \/ thr[t].pc = "seg_merge"
       \/ thr[t].pc = "fin_poll" /\ NonEmpty(thr[t].video_file)

\* C13: whenever the Muxer is invoked and produces no merged file, it returns
\* to the worker without raising, the files on disk are left as they are, and
\* the worker records the chunk as a raw segment under the video path it gave
\* to the Muxer.
C13_MergeFailureDemotesToRaw ==
    [][\A t \in Threads :
          (MergeAttempt(t) /\ ~Records(t, "merged")) =>
             /\ ~thr'[t].raised
             /\ fs' = fs
             /\ Records(t, "raw")
             /\ segments' = Append(segments,
                    SegmentRecord(thr[t].video_file, thr[t].seg_start, thr[t].seg_end))]_vars

\* The readiness poll of worker t ends in this step with the expected file not
\* ready, and the directory scan has no candidate with content: Videos/ holds
\* no temp file, or the one modified last is empty.
PollFindsNothing(t) ==
    /\ thr[t].pc = "seg_poll"
    /\ thr'[t] # thr[t]
    /\ ~NonEmpty(thr[t].video_file)
    /\ thr[t].waited + 1 >= ReadyPolls
    /\ fs.recent # <<>> => ~NonEmpty(fs.recent[1])

\* C14: when the readiness poll is exhausted and the scan finds no file with
\* content, the chunk is marked lost and nothing is added to the ledger, no
\* error leaves the worker or reaches the caller, and the worker goes back to
\* the loop test with the next chunk index and the next chunk starting where
\* this one ended; a chunk marked lost there is never recorded as merged or raw.
C14_UnrecoverableChunkIsLost ==
    /\ [][\A t \in Threads :
             PollFindsNothing(t) =>
                /\ Records(t, "lost")
                /\ segments' = segments
                /\ thr'[t].pc = "seg_loop" /\ ~thr'[t].raised
                /\ thr'[t].seg_start = thr[t].seg_end
                /\ chunk_num' = chunk_num + 1
                /\ caller' = caller /\ returns' = returns]_vars
    /\ [](\A c \in DOMAIN chunks :
             (chunks[c].outcomes # <<>> /\ chunks[c].outcomes[1] = "lost")
                => ~HasOutcome(c, "merged") /\ ~HasOutcome(c, "raw"))

\* A chunk was marked lost, the session is still recording and the same worker
\* has started the next chunk.
C14_Witness ==
    \E c \in DOMAIN chunks :
       /\ chunks[c].outcomes = <<"lost">>
       /\ recording
       /\ c + 1 \in DOMAIN chunks
       /\ chunks[c + 1].thread = chunks[c].thread
       /\ thr[chunks[c].thread].chunk = c + 1

(***************************************************************************)
(* The returned list of a video-only session, delivery names               *)
(***************************************************************************)
\* The stop_recording calls that close a video-only session whose start succeeded.
VideoStops ==
    {i \in DOMAIN returns :
        ~returns[i].with_audio /\ ~returns[i].again /\ returns[i].worker # NoThread}

\* The k-th segment of the i-th returned list was renamed to its delivery name.
Renamed(i, k) == Returned(i)[k].file # Returned(i)[k].src

\* C15: in a video-only session the closing segment is appended exactly when
\* the last file has content at the end of the final poll; the returned list
\* holds one segment per rollover the session's monitor has performed, plus
\* the closing segment, and every delivery name in it has the prefix vdo (two
\* rollovers and an empty last file give exactly two segments).
C15_VideoOnlyReturnsRolloversPlusClosing ==
    /\ [][(caller.pc = "final_poll" /\ caller'.pc = "rename") =>
             segments' = IF NonEmpty(current_video_file)
                         THEN Append(segments, SegmentRecord(current_video_file,
                                                             current_segment_start, now))
                         ELSE segments]_vars
    /\ [](\A i \in VideoStops :
             /\ Len(Returned(i)) = returns[i].rollovers + (IF returns[i].closed THEN 1 ELSE 0)
             /\ \A k \in DOMAIN Returned(i) : Renamed(i, k) => Returned(i)[k].file[1] = "vdo")

\* C16: every delivery filename stop_recording produces is made of the prefix
\* (merged when the session was started with audio, vdo otherwise), the session
\* id (the i-th stop_recording of the recorder closes session i), the segment's
\* 1-based position in the returned list, its start and end, and the category.
C16_DeliveryFilenamePattern ==
    \A i \in DOMAIN returns :
       \A k \in DOMAIN Returned(i) :
          Renamed(i, k) =>
             Returned(i)[k].file =
                <<IF returns[i].with_audio THEN "merged" ELSE "vdo", i, k,
                  Returned(i)[k].start, Returned(i)[k].end, Category>>

\* A stop_recording that closes a session has returned two renamed segments.
C16_Witness ==
    \E i \in DOMAIN returns :
       /\ ~returns[i].again
       /\ Len(Returned(i)) >= 2
       /\ Renamed(i, 1) /\ Renamed(i, 2)

\* C17: in the list stop_recording returns for a session no two segments have
\* the same path, and the indices in the delivery filenames increase strictly
\* along the list.
C17_DeliveryPathsDistinct ==
    \A i \in DOMAIN returns :
       ~returns[i].again =>
          \A k1, k2 \in DOMAIN Returned(i) :
             k1 < k2 =>
                /\ Returned(i)[k1].file # Returned(i)[k2].file
                /\ (Renamed(i, k1) /\ Renamed(i, k2))
                      => Returned(i)[k1].file[3] < Returned(i)[k2].file[3]

\* C18: stop_recording returns one segment for every ledger entry, with the
\* entry's start and end; the segment's path is the delivery name where the
\* rename has been made and the entry's own path where it has not, and a
\* rename that fails does not keep the later entries from being renamed.
C18_RenameFailureNonFatal ==
    [][(caller.pc = "rename" /\ caller'.pc # "rename") =>
          /\ caller'.pc = "idle"
          /\ Len(returns') = Len(returns) + 1
          /\ LET out == returns'[Len(returns')].segments IN
                /\ Len(out) = Len(segments)
                /\ \A k \in DOMAIN segments :
                      /\ out[k].start = segments[k].start
                      /\ out[k].end = segments[k].end
                      /\ out[k].file = IF FinalName(k, segments[k]) \in DOMAIN fs'.size
                                       THEN FinalName(k, segments[k])
                                       ELSE segments[k].file]_vars

\* The rename of the first entry has failed (its file is still there under the
\* ledger path, which is returned) and the second entry, another file, has
\* been renamed.
C18_Witness ==
    \E i \in DOMAIN returns :
       /\ ~returns[i].again
       /\ Len(Returned(i)) >= 2
       /\ Returned(i)[1].src # Returned(i)[2].src
       /\ ~Renamed(i, 1) /\ Exists(Returned(i)[1].src)
       /\ Renamed(i, 2) /\ Exists(Returned(i)[2].file)

\* Along the list, no segment starts or ends before the one in front of it.
Chronological(s) ==
    \A k \in 1..(Len(s) - 1) : s[k].start <= s[k + 1].start /\ s[k].end <= s[k + 1].end

\* C19: the list stop_recording returns for a session is in chronological
\* order, in both modes, whatever the worker or the monitor does while
\* stop_recording runs.
C19_ReturnedListChronological ==
    \A i \in DOMAIN returns : ~returns[i].again => Chronological(Returned(i))

\* C20: at most one capture is in flight: no capture is started on the Capture
\* Driver while a capture started earlier has not been issued its stop.
C20_AtMostOneCaptureInFlight == Cardinality(cam.open) <= 1

\* A step in which the Capture Driver rejects a start: at the start of a
\* video-only session, at a rollover, or at a chunk of an audio+video session.
StartRejected ==
    \/ caller'.calls # caller.calls /\ caller'.last = "start_failed"
    \/ \E t \in Threads : thr[t].pc = "mon_next" /\ thr'[t].pc = "done"
    \/ \E t \in Threads : /\ thr[t].pc = "seg_loop" /\ recording
                          /\ thr'[t].pc = "done" /\ chunks' = chunks

\* C21: a start that the Capture Driver rejects (at the start of a video-only
\* session, at a rollover, at a chunk of an audio+video session) leaves the
\* recording flag false, and nothing but such a rejection or a stop_recording
\* call clears the flag.
C21_RejectedStartAbortsSession ==
    [][/\ StartRejected => ~recording'
       /\ recording /\ ~recording' =>
             \/ StartRejected
             \/ caller.pc = "idle" /\ caller'.pc \in {"join_seg", "join_mon"}]_vars

\* C22: when an exception ends a segmentation worker, the capture of its
\* current chunk has been stopped and the chunk has an outcome (merged, raw
\* or lost).
C22_ExceptionLeavesChunkAccounted ==
    [][\A t \in Threads :
          (/\ thr[t].kind = "seg" /\ Alive(t)
           /\ thr'[t].pc = "done" /\ thr'[t].raised
           /\ thr'[t].chunk \in DOMAIN chunks')
          => /\ chunks'[thr'[t].chunk].outcomes # <<>>
             /\ chunks'[thr'[t].chunk].file \notin cam'.open]_vars

\* C23: the caller of start_recording / stop_recording changes the ledger only
\* when the worker of the session it started last is no longer alive.
C23_LedgerSingleWriter ==
    [][(caller' # caller /\ segments' # segments)
          => (caller.worker = NoThread \/ ~Alive(caller.worker))]_vars

\* The files the ledger's segments hold.
LedgerFiles == {segments[k].file : k \in DOMAIN segments}

\* C24: when a session is finalized every ledger segment's file exists and no
\* file backs two segments; and the chunk handed to the Muxer after the
\* directory scan is never a file that a ledger segment holds.
C24_TempFileHasOneOwner ==
    /\ (caller.pc = "rename" /\ caller.last = "stopping") =>
          /\ \A k \in DOMAIN segments : Exists(segments[k].file)
          /\ \A j, k \in DOMAIN segments : j # k => segments[j].file # segments[k].file
    /\ \A t \in Threads : thr[t].pc = "seg_merge" => thr[t].video_file \notin LedgerFiles

\* C25: in a video-only stop the capture is stopped, the poll for the current
\* file takes at most ReadyPolls turns, and the poll ends by appending the
\* closing segment of the current file exactly when that file has content;
\* otherwise the ledger and the files are left as they are.
C25_ClosingSegmentIffNonEmpty ==
    [][/\ (caller.pc = "stop_camera" /\ caller' # caller) => cam'.open = {}
       /\ (caller.pc = "final_poll" /\ caller' # caller) =>
             /\ caller.waited < ReadyPolls
             /\ fs' = fs
             /\ IF NonEmpty(current_video_file)
                THEN /\ caller'.pc = "rename"
                     /\ segments' = Append(segments,
                            SegmentRecord(current_video_file, current_segment_start, now))
                ELSE /\ segments' = segments
                     /\ \/ caller'.pc = "rename" /\ caller.waited + 1 = ReadyPolls
                        \/ caller'.pc = "final_poll" /\ caller'.waited = caller.waited + 1]_vars

\* A video-only stop whose poll has ended on a current file without content
\* while another temp file with content exists and the monitor has ended:
\* nothing was appended by the call.
C25_Witness ==
    /\ caller.pc = "rename" /\ caller.last = "stopping" /\ ~with_audio
    /\ current_video_file # NoPath /\ ~NonEmpty(current_video_file)
    /\ ~caller.closed /\ \A t \in Threads : ~Alive(t)
    /\ \E f \in DOMAIN fs.size : IsTempVideo(f) /\ NonEmpty(f) /\ f # current_video_file

\* C26: a chunk that the loop has already accounted for (merged, raw or lost)
\* is not stopped and processed again by the block after the loop, whether or
\* not the Capture Driver's stop raised.
C26_StopFailureChunkHandledOnce ==
    \A t \in Threads :
       thr[t].pc \in {"fin_stop", "fin_poll"} => chunks[thr[t].chunk].outcomes = <<>>

\* The step of worker t that ends an iteration of the audio+video loop: the
\* worker is back at the loop test, or the chunk's outcome has been recorded.
IterationEnds(t) ==
    /\ thr[t].pc \in {"seg_poll", "seg_merge"}
    /\ \/ thr'[t].pc = "seg_loop"
       \/ chunks'[thr[t].chunk].outcomes # chunks[thr[t].chunk].outcomes

\* C27: every iteration of the audio+video loop that ends (merged, raw or
\* lost) goes back to the loop test with the chunk index advanced by one and
\* the next chunk's start set to this chunk's end.
C27_IterationAdvancesIndexAndStart ==
    [][\A t \in Threads :
          IterationEnds(t) => /\ thr'[t].pc = "seg_loop"
                              /\ chunk_num' = chunk_num + 1
                              /\ thr[t].seg_end # NoTime
                              /\ thr'[t].seg_start = thr[t].seg_end]_vars

\* A worker back at the loop test after two iterations, the first merged and
\* the second lost: the index is 3 and the next chunk starts at the last end.
C27_Witness ==
    \E t \in Threads :
       /\ thr[t].pc = "seg_loop" /\ chunk_num = 3 /\ Len(chunks) = 2
       /\ chunks[1].thread = t /\ chunks[1].outcomes = <<"merged">>
       /\ chunks[2].thread = t /\ chunks[2].outcomes = <<"lost">>
       /\ thr[t].seg_start = thr[t].seg_end /\ thr[t].seg_start > current_segment_start

\* The step in which worker t stops the audio capture of an iteration.
AudioStopStep(t) == thr[t].pc = "seg_audio_stop" /\ thr'[t].pc = "seg_poll"

\* C28: in an iteration of the audio+video loop the audio capture is stopped
\* only after the Capture Driver's stop, and the end timestamp taken for the
\* chunk is the time at which the Capture Driver was stopped.
C28_VideoStoppedFirstEndAtFreeze ==
    [][\A t \in Threads :
          AudioStopStep(t) => /\ thr[t].frozen # NoTime
                              /\ thr'[t].seg_end = thr[t].frozen]_vars

\* C29: in an iteration of the audio+video loop the wait of the grace period
\* (the step that stops the Capture Driver and then sleeps) ends with both
\* captures stopped, and the file is polled only after that wait and with
\* both captures stopped.
C29_GraceWaitAfterBothStops ==
    [][\A t \in Threads :
          /\ (thr[t].pc = "seg_cam_stop" /\ thr'[t].pc # "seg_cam_stop")
                => now' > now /\ ~thr'[t].audio_started
          /\ (thr[t].pc = "seg_poll" /\ thr'[t] # thr[t])
                => ~thr[t].audio_started /\ thr[t].frozen < now]_vars

\* C30: a worker starts the capture of its next chunk only when every chunk it
\* started before has its outcome recorded, and while a chunk is at the Muxer
\* no capture started in the same session is running.
C30_MuxingSerialBetweenChunks ==
    [][\A t \in Threads :
          /\ (thr[t].pc = "seg_loop" /\ thr'[t].pc = "seg_wait")
                => \A c \in DOMAIN chunks :
                      chunks[c].thread = t => chunks[c].outcomes # <<>>
          /\ thr[t].pc = "seg_merge"
                => \A c \in DOMAIN chunks :
                      chunks[c].session = chunks[thr[t].chunk].session => ~Capturing(c)]_vars

\* The sleeps of a second or more that worker t can still make once the flag
\* is cleared: time.sleep(2.0) of the iteration and of the block after the loop.
SleepsLeft(t) ==
    IF thr[t].pc \in {"seg_wait", "seg_cam_stop"} THEN 2
    ELSE IF thr[t].pc = "fin_stop" THEN 1
    ELSE IF thr[t].pc \in {"seg_loop", "seg_audio_stop", "seg_poll", "seg_merge"}
            /\ thr[t].recording_started THEN 1
    ELSE 0

\* stop_recording has cleared the flag, the caller makes no further call, and
\* the clock of the model has room for the sleeps worker t can still make and
\* for the join that waits for it.
Cancelled(t) ==
    /\ thr[t].kind = "seg" /\ Alive(t)
    /\ ~recording /\ Calls = caller.budget
    /\ now + SleepsLeft(t) + (IF caller.pc = "join_seg" THEN 1 ELSE 0) <= MaxTime

\* C31: a segmentation worker starts a chunk only when it finds the recording
\* flag set; and once stop_recording has cleared the flag and no start follows,
\* the worker eventually exits.
C31_CooperativeCancellation ==
    /\ [][\A t \in Threads :
             (thr[t].pc = "seg_loop" /\ Len(chunks') > Len(chunks) /\ thr'[t] # thr[t])
             => recording]_vars
    /\ \A t \in Threads : Cancelled(t) ~> ~Alive(t)

\* A worker whose chunk was being captured when stop_recording cleared the flag
\* has stopped it, accounted for it and left without an exception.
C31_Witness ==
    \E t \in Threads :
       /\ thr[t].kind = "seg" /\ thr[t].pc = "done" /\ ~thr[t].raised
       /\ ~recording /\ Calls = caller.budget
       /\ thr[t].chunk \in DOMAIN chunks
       /\ chunks[thr[t].chunk].stop_seen /\ chunks[thr[t].chunk].outcomes # <<>>

\* The sleeps of a second or more that thread t can still make while the flag
\* is cleared: those of a segmentation worker, the one of a monitor that is
\* inside a rollover.
ThreadSleepsLeft(t) ==
    IF thr[t].kind = "seg" THEN SleepsLeft(t)
    ELSE IF thr[t].pc \in {"mon_stop", "mon_next"} THEN 1
    ELSE 0

\* The waits of a second or more stop_recording still has before it: the join
\* (when it times out) and, in the video-only branch, time.sleep(1.0).
StopSleepsLeft ==
    IF caller.pc = "join_seg" THEN 1
    ELSE IF caller.pc = "join_mon" THEN 2
    ELSE IF caller.pc = "stop_camera" THEN 1
    ELSE 0

\* stop_recording is running and the clock of the model has room for its
\* waits and for the sleeps the threads can make meanwhile.
StopRunning ==
    /\ caller.pc # "idle"
    /\ now + StopSleepsLeft + ThreadSleepsLeft(1) + ThreadSleepsLeft(2) <= MaxTime

\* C32: a stop_recording that is running returns, whatever the workers do; when
\* it returns the recording flag is false; and the start_recording that follows
\* a returned stop_recording is not ignored: it begins a session with an empty
\* ledger.
C32_StopAlwaysReturns ==
    /\ StopRunning ~> caller.pc = "idle"
    /\ [][/\ (caller.pc # "idle" /\ caller'.pc = "idle") => ~recording'
          /\ (caller.last = "stopped" /\ caller'.calls # caller.calls
                                      /\ caller'.pc = "idle")
                => caller'.last \in {"started", "start_failed"} /\ segments' = <<>>]_vars

\* stop_recording has returned although the worker of the session is still
\* alive, and a start_recording after it has begun a second session.
C32_Witness ==
    /\ caller.pc = "idle" /\ caller.last = "started" /\ Len(returns) = 1
    /\ returns[1].worker # NoThread /\ Alive(returns[1].worker)
    /\ caller.worker # returns[1].worker /\ recording

\* C33: at most one audio capture is in flight, and at most one worker is
\* between its start_segmented_recording and its stop_segmented_recording.
C33_OneAudioCaptureInFlight ==
    /\ audio.live <= 1
    /\ Cardinality({t \in Threads : thr[t].audio_started}) <= 1

\* C34: a rollover of the monitor first stops the Capture Driver and appends
\* the closed chunk's segment, and only then starts the Capture Driver on a
\* newly generated target; when that start has returned the current video file
\* is the new target and the current segment start is the closed segment's end.
C34_RolloverOrder ==
    [][\A t \in Threads :
          /\ (thr[t].pc = "mon_stop" /\ thr'[t].pc # "mon_stop")
                => /\ thr'[t].pc = "mon_next"
                   /\ cam'.open = {}
                   /\ segments' = Append(segments,
                          SegmentRecord(current_video_file, current_segment_start,
                                        thr[t].seg_end))
                   /\ UNCHANGED <<current_video_file, current_segment_start>>
          /\ (thr[t].pc = "mon_next" /\ thr'[t].pc = "mon_check")
                => /\ thr[t].rollovers > 0
                   /\ segments' = segments
                   /\ current_video_file' = generate_video_filename
                   /\ current_video_file' \in cam'.open
                   /\ current_segment_start' = thr[t].seg_end]_vars

\* A monitor has completed a rollover: the closed chunk is the last ledger
\* entry, the capture runs on another file, and the current segment starts at
\* the closed segment's end.
C34_Witness ==
    \E t \in Threads :
       /\ thr[t].kind = "mon" /\ thr[t].pc = "mon_check" /\ thr[t].rollovers = 1
       /\ recording /\ Len(segments) = 1
       /\ current_video_file \in cam.open
       /\ current_video_file # segments[1].file
       /\ current_segment_start = segments[1].end /\ current_segment_start > 0

\* C35: from the return of stop_recording until the next start_recording no
\* capture is started on the Capture Driver.
C35_NoCaptureAfterStop ==
    (caller.pc = "idle" /\ caller.last = "stopped") => cam.open = {}

\* C36: once a later session has been started, a segmentation worker created
\* for an earlier session changes neither the ledger nor the chunk index.
C36_EarlierWorkerLeavesNextSession ==
    [][\A t \in Threads :
          (/\ thr[t].kind = "seg" /\ thr'[t] # thr[t]
           /\ caller.worker # NoThread /\ caller.worker # t)
          => segments' = segments /\ chunk_num' = chunk_num]_vars

\* The delivery filenames stop_recording call i returned: the paths of the
\* segments it renamed.
Delivered(i) == {Returned(i)[k].file : k \in {j \in DOMAIN Returned(i) : Renamed(i, j)}}

\* C37: the session id never decreases and grows by one when stop_recording
\* returns; the chunk index is 1 when start_recording creates a session's
\* worker; and no delivery filename is returned by two stop_recording calls.
C37_SessionIdAndChunkIndex ==
    [][/\ session_counter' >= session_counter
       /\ (caller.pc = "rename" /\ caller'.pc = "idle")
             => session_counter' = session_counter + 1
       /\ (caller'.calls # caller.calls /\ caller'.last = "started") => chunk_num = 1
       /\ \A i, j \in DOMAIN returns : i # j => Delivered(i) \cap Delivered(j) = {}]_vars

\* C38: in the poll loop, a press held over consecutive polls calls the
\* button's action exactly once, on the second poll in a row that reads the
\* input low (the debounce time having elapsed since the first); no other
\* step calls it, so it is not called again before a release and a new
\* press, and a low level read on a single poll calls nothing.
C38_PressTriggersOnce ==
    [][\A b \in Buttons :
          LET o == gpio.btn[b]
              n == gpio'.btn[b]
          IN  /\ n.triggered = o.triggered + (IF o.held = 1 /\ n.held = 2 THEN 1 ELSE 0)
              /\ n.triggered > o.triggered => (gpio.time - o.press_time) >= DebounceTime]_vars

\* A press held over three polls has called the action once.
C38_Witness ==
    \E b \in Buttons : gpio.btn[b].held >= 3 /\ gpio.btn[b].triggered = 1
====
